---- MODULE Spec2Model ----
(***************************************************************************)
(* Play-money betting backend (src/main.py, src/schemas.py): the bettor,  *)
(* event and bet collections of the document store, and the request       *)
(* handlers create_bettor, place_bet and settle_event.  Handlers run      *)
(* request-parallel: every store call (find_one, insert, update_one,      *)
(* update_many) is one atomic step, and steps of different requests       *)
(* interleave freely.                                                     *)
(*                                                                         *)
(* Money is fixed-point: amounts, balances and payouts are in hundredths  *)
(* (cents), odds are in hundredths, so amount * odds is in 1/10000.       *)
(* Binary floating-point error below the cent is not modelled; the        *)
(* amounts used never produce a product that lies exactly halfway         *)
(* between two cents, where round() would depend on the float's bits.     *)
(***************************************************************************)
EXTENDS Integers, Sequences, FiniteSets, TLC

\* ---------------------------------------------------------------- bounds
\* requests served at the same time, requests in all, bettors created
MaxThreads == 2
MaxCalls == 3
MaxBettors == 2

\* ------------------------------------------------------- program constants
DefaultBalance == 100000
NoPayout == 0 - 1
NoResult == "None"

Threads == 1 .. MaxThreads

\* Outcome(name, odds) of schemas.py; odds in hundredths
Outcome(n, o) == [name |-> n, odds |-> o]

\* The two events inserted by seed_events
SeedEvents ==
    << [status |-> "open", result |-> NoResult,
        outcomes |-> << Outcome("Team Red", 190), Outcome("Draw", 320),
                        Outcome("Team Blue", 210) >>],
       [status |-> "open", result |-> NoResult,
        outcomes |-> << Outcome("Fighter A", 160), Outcome("Fighter B", 240) >>] >>

\* ------------------------------------------------------------ request inputs
BettorIds == 1 .. MaxBettors
EventIds == 1 .. Len(SeedEvents)
OutcomeNames == {"Team Red", "Draw", "Fighter A"}
Amounts == {0, 33, 100000}

\* ------------------------------------------------------------ HTTP responses
Response(code, text) == [status |-> code, detail |-> text]
Ok == Response(200, "ok")
BettorNotFound == Response(404, "Bettor not found")
EventNotFound == Response(404, "Event not found")
EventNotOpen == Response(400, "Event not open for betting")
InvalidOutcome == Response(400, "Invalid outcome for this event")
InvalidAmount == Response(400, "Invalid bet amount")
InsufficientBalance == Response(400, "Insufficient balance")
InvalidResult == Response(400, "Result is not a valid outcome")
NoResponse == Response(0, "")

VARIABLES bettors, events, bets, calls, ncalls

store == << bettors, events, bets >>
vars == << bettors, events, bets, calls, ncalls >>

\* ------------------------------------------------------------ pure helpers
\* round(x, 2) of a product given in 1/10000: nearest cent, ties to even
Round2(x) ==
    LET q == x \div 100
        r == x % 100
    IN  IF r < 50 THEN q
        ELSE IF r > 50 THEN q + 1
        ELSE IF q % 2 = 0 THEN q ELSE q + 1

\* mutant: the product is cut to the cent instead of rounded
PayoutTruncated(amount, odds) == (amount * odds) \div 100

\* potential = round(amount * float(chosen.get("odds")), 2)
Payout(amount, odds) == Round2(amount * odds)

\* index of the first outcome named n in an outcomes list, 0 when none
FindOutcome(outcomes, n) ==
    IF \E i \in 1 .. Len(outcomes) : outcomes[i].name = n
    THEN CHOOSE i \in 1 .. Len(outcomes) :
            /\ outcomes[i].name = n
            /\ \A j \in 1 .. (i - 1) : outcomes[j].name # n
    ELSE 0

\* mutant: the result is accepted whenever the event has outcomes
ValidResultNonEmpty(outcomes, n) == Len(outcomes) > 0

\* any(o.get("name") == result for o in ev.get("outcomes", []))
ValidResult(outcomes, n) == \E i \in 1 .. Len(outcomes) : outcomes[i].name = n

AmountPositive(amount) == amount > 0

\* mutant: the balance is not checked
BalanceCoversAlways(amount, balance) == TRUE

\* mutant: a stake equal to the balance is refused
BalanceCoversStrict(amount, balance) == amount < balance

BalanceCovers(amount, balance) == ~ (amount > balance)

\* mutant: the amount is checked before the event status and the outcome
PlaceChecksReordered(ev, outcome, amount, balance) ==
    IF ~ AmountPositive(amount) THEN InvalidAmount
    ELSE IF ev.status # "open" THEN EventNotOpen
    ELSE IF FindOutcome(ev.outcomes, outcome) = 0 THEN InvalidOutcome
    ELSE IF ~ BalanceCovers(amount, balance) THEN InsufficientBalance
    ELSE Ok

\* the checks of place_bet that follow the event lookup, in code order
PlaceChecks(ev, outcome, amount, balance) ==
    IF ev.status # "open" THEN EventNotOpen
    ELSE IF FindOutcome(ev.outcomes, outcome) = 0 THEN InvalidOutcome
    ELSE IF ~ AmountPositive(amount) THEN InvalidAmount
    ELSE IF ~ BalanceCovers(amount, balance) THEN InsufficientBalance
    ELSE Ok

\* Bet(...) of schemas.py as built by place_bet
NewBet(user, event, outcome, amount, odds, potential) ==
    [user_id |-> user, event_id |-> event, outcome |-> outcome,
     amount |-> amount, odds_at_bet |-> odds, status |-> "pending",
     potential_payout |-> potential, settled_payout |-> NoPayout]

\* db["bet"].find({"event_id": e, "outcome": r}) as a list of documents
RECURSIVE FindBets(_, _, _, _)
FindBets(bs, i, e, r) ==
    IF i > Len(bs) THEN << >>
    ELSE IF bs[i].event_id = e /\ bs[i].outcome = r
         THEN << [id |-> i, doc |-> bs[i]] >> \o FindBets(bs, i + 1, e, r)
         ELSE FindBets(bs, i + 1, e, r)

\* the local state of a request handler
IdleCall ==
    [kind |-> "none", pc |-> "idle", bettor_id |-> 0, event_id |-> 0,
     outcome |-> "", amount |-> 0, balance |-> 0, odds |-> 0,
     potential |-> 0, winning |-> << >>, payout |-> 0, resp |-> NoResponse]

Finish(c, r) ==
    [c EXCEPT !.pc = "done", !.resp = r, !.balance = 0, !.odds = 0,
              !.winning = << >>, !.payout = 0]

Free(t) == calls[t].pc = "idle"

\* ------------------------------------------------------------------- Init
Init ==
    /\ bettors = << >>
    /\ events = << >>
    /\ bets = << >>
    /\ calls = [t \in Threads |-> IdleCall]
    /\ ncalls = 0

\* ------------------------------------------------------------ seed_events
\* one db["event"].insert_one(ev_doc) of the loop over the sample events
SeedInsert ==
    /\ Len(events) < Len(SeedEvents)
    /\ events' = Append(events, SeedEvents[Len(events) + 1])
    /\ UNCHANGED << bettors, bets, calls, ncalls >>

\* ---------------------------------------------------------- create_bettor
CreateBettor ==
    /\ Len(bettors) < MaxBettors
    /\ bettors' = Append(bettors, [balance |-> DefaultBalance])
    /\ UNCHANGED << events, bets, calls, ncalls >>

\* -------------------------------------------------------------- place_bet
\* request arrives; bettor = db["bettor"].find_one(...)
PlaceFindBettor(t, b, e, o, a) ==
    /\ Free(t)
    /\ ncalls < MaxCalls
    /\ ncalls' = ncalls + 1
    /\ LET c == [IdleCall EXCEPT !.kind = "place", !.bettor_id = b,
                                 !.event_id = e, !.outcome = o, !.amount = a]
       IN  IF b \notin 1 .. Len(bettors)
           THEN calls' = [calls EXCEPT ![t] = Finish(c, BettorNotFound)]
           ELSE calls' = [calls EXCEPT ![t] =
                            [c EXCEPT !.pc = "p_event",
                                      !.balance = bettors[b].balance]]
    /\ UNCHANGED store

\* event = db["event"].find_one(...) and the checks up to potential
PlaceFindEvent(t) ==
    LET c == calls[t] IN
    /\ c.pc = "p_event"
    /\ IF c.event_id \notin 1 .. Len(events)
       THEN calls' = [calls EXCEPT ![t] = Finish(c, EventNotFound)]
       ELSE LET ev == events[c.event_id]
                r == PlaceChecks(ev, c.outcome, c.amount, c.balance)
            IN  IF r # Ok
                THEN calls' = [calls EXCEPT ![t] = Finish(c, r)]
                ELSE LET odds == ev.outcomes[FindOutcome(ev.outcomes, c.outcome)].odds
                     IN  calls' = [calls EXCEPT ![t] =
                            [c EXCEPT !.pc = "p_insert", !.odds = odds,
                                      !.potential = Payout(c.amount, odds)]]
    /\ UNCHANGED << store, ncalls >>

\* bet_id = create_document("bet", bet)
PlaceInsert(t) ==
    LET c == calls[t] IN
    /\ c.pc = "p_insert"
    /\ bets' = Append(bets, NewBet(c.bettor_id, c.event_id, c.outcome,
                                   c.amount, c.odds, c.potential))
    /\ calls' = [calls EXCEPT ![t].pc = "p_debit"]
    /\ UNCHANGED << bettors, events, ncalls >>

\* mutant: the potential payout is deducted instead of the stake
PlaceDebitPotential(t) ==
    LET c == calls[t] IN
    /\ c.pc = "p_debit"
    /\ bettors' = [bettors EXCEPT ![c.bettor_id].balance = @ - c.potential]
    /\ calls' = [calls EXCEPT ![t] = Finish(c, Ok)]
    /\ UNCHANGED << events, bets, ncalls >>

\* db["bettor"].update_one(..., {"$inc": {"balance": -amount}}); return
PlaceDebit(t) ==
    LET c == calls[t] IN
    /\ c.pc = "p_debit"
    /\ bettors' = [bettors EXCEPT ![c.bettor_id].balance = @ - c.amount]
    /\ calls' = [calls EXCEPT ![t] = Finish(c, Ok)]
    /\ UNCHANGED << events, bets, ncalls >>

\* ----------------------------------------------------------- settle_event
\* mutant: the event is marked settled before the result is validated
SettleFindEventMarksFirst(t, e, r) ==
    /\ Free(t)
    /\ ncalls < MaxCalls
    /\ ncalls' = ncalls + 1
    /\ LET c == [IdleCall EXCEPT !.kind = "settle", !.event_id = e, !.outcome = r]
       IN  IF e \notin 1 .. Len(events)
           THEN /\ calls' = [calls EXCEPT ![t] = Finish(c, EventNotFound)]
                /\ events' = events
           ELSE /\ events' = [events EXCEPT ![e].status = "settled", ![e].result = r]
                /\ IF ~ ValidResult(events[e].outcomes, r)
                   THEN calls' = [calls EXCEPT ![t] = Finish(c, InvalidResult)]
                   ELSE calls' = [calls EXCEPT ![t] = [c EXCEPT !.pc = "s_find"]]
    /\ UNCHANGED << bettors, bets >>

\* mutant: a settlement of an event that is not open is refused
SettleFindEventGuarded(t, e, r) ==
    /\ Free(t)
    /\ ncalls < MaxCalls
    /\ ncalls' = ncalls + 1
    /\ LET c == [IdleCall EXCEPT !.kind = "settle", !.event_id = e, !.outcome = r]
       IN  IF e \notin 1 .. Len(events)
           THEN calls' = [calls EXCEPT ![t] = Finish(c, EventNotFound)]
           ELSE IF ~ ValidResult(events[e].outcomes, r)
           THEN calls' = [calls EXCEPT ![t] = Finish(c, InvalidResult)]
           ELSE IF events[e].status # "open"
           THEN calls' = [calls EXCEPT ![t] = Finish(c, EventNotOpen)]
           ELSE calls' = [calls EXCEPT ![t] = [c EXCEPT !.pc = "s_update"]]
    /\ UNCHANGED store

\* request arrives; ev = db["event"].find_one(...) and the result check
SettleFindEvent(t, e, r) ==
    /\ Free(t)
    /\ ncalls < MaxCalls
    /\ ncalls' = ncalls + 1
    /\ LET c == [IdleCall EXCEPT !.kind = "settle", !.event_id = e, !.outcome = r]
       IN  IF e \notin 1 .. Len(events)
           THEN calls' = [calls EXCEPT ![t] = Finish(c, EventNotFound)]
           ELSE IF ~ ValidResult(events[e].outcomes, r)
           THEN calls' = [calls EXCEPT ![t] = Finish(c, InvalidResult)]
           ELSE calls' = [calls EXCEPT ![t] = [c EXCEPT !.pc = "s_update"]]
    /\ UNCHANGED store

\* mutant: the update records the result and leaves the status open
SettleUpdateEventResultOnly(t) ==
    LET c == calls[t] IN
    /\ c.pc = "s_update"
    /\ events' = [events EXCEPT ![c.event_id].result = c.outcome]
    /\ calls' = [calls EXCEPT ![t].pc = "s_find"]
    /\ UNCHANGED << bettors, bets, ncalls >>

\* mutant: the update sets the status and forgets the result
SettleUpdateEventStatusOnly(t) ==
    LET c == calls[t] IN
    /\ c.pc = "s_update"
    /\ events' = [events EXCEPT ![c.event_id].status = "settled"]
    /\ calls' = [calls EXCEPT ![t].pc = "s_find"]
    /\ UNCHANGED << bettors, bets, ncalls >>

\* db["event"].update_one(..., {"$set": {"status": "settled", "result": r}})
SettleUpdateEvent(t) ==
    LET c == calls[t] IN
    /\ c.pc = "s_update"
    /\ events' = [events EXCEPT ![c.event_id].status = "settled",
                                ![c.event_id].result = c.outcome]
    /\ calls' = [calls EXCEPT ![t].pc = "s_find"]
    /\ UNCHANGED << bettors, bets, ncalls >>

\* winning_bets = list(db["bet"].find({event_id, outcome: result}))
SettleFindWinning(t) ==
    LET c == calls[t]
        w == FindBets(bets, 1, c.event_id, c.outcome)
    IN
    /\ c.pc = "s_find"
    /\ calls' = [calls EXCEPT ![t].winning = w,
                              ![t].pc = IF w = << >> THEN "s_lose" ELSE "s_win"]
    /\ UNCHANGED << store, ncalls >>

\* mutant: the payout is computed from the odds the event lists now
SettleMarkWonCurrentOdds(t) ==
    LET c == calls[t]
        b == Head(c.winning)
        ev == events[c.event_id]
        p == Payout(b.doc.amount,
                    ev.outcomes[FindOutcome(ev.outcomes, c.outcome)].odds)
    IN
    /\ c.pc = "s_win"
    /\ bets' = [bets EXCEPT ![b.id].status = "won", ![b.id].settled_payout = p]
    /\ calls' = [calls EXCEPT ![t].payout = p, ![t].pc = "s_credit"]
    /\ UNCHANGED << bettors, events, ncalls >>

\* payout = round(amount * odds_at_bet, 2); db["bet"].update_one(... "won" ...)
SettleMarkWon(t) ==
    LET c == calls[t]
        b == Head(c.winning)
        p == Payout(b.doc.amount, b.doc.odds_at_bet)
    IN
    /\ c.pc = "s_win"
    /\ bets' = [bets EXCEPT ![b.id].status = "won", ![b.id].settled_payout = p]
    /\ calls' = [calls EXCEPT ![t].payout = p, ![t].pc = "s_credit"]
    /\ UNCHANGED << bettors, events, ncalls >>

\* mutant: the bettor is credited the stake instead of the payout
SettleCreditStake(t) ==
    LET c == calls[t]
        b == Head(c.winning)
        rest == Tail(c.winning)
    IN
    /\ c.pc = "s_credit"
    /\ bettors' = [bettors EXCEPT ![b.doc.user_id].balance = @ + b.doc.amount]
    /\ calls' = [calls EXCEPT ![t].winning = rest, ![t].payout = 0,
                              ![t].pc = IF rest = << >> THEN "s_lose" ELSE "s_win"]
    /\ UNCHANGED << events, bets, ncalls >>

\* db["bettor"].update_one({"_id": b["user_id"]}, {"$inc": {"balance": payout}})
SettleCredit(t) ==
    LET c == calls[t]
        b == Head(c.winning)
        rest == Tail(c.winning)
    IN
    /\ c.pc = "s_credit"
    /\ bettors' = [bettors EXCEPT ![b.doc.user_id].balance = @ + c.payout]
    /\ calls' = [calls EXCEPT ![t].winning = rest, ![t].payout = 0,
                              ![t].pc = IF rest = << >> THEN "s_lose" ELSE "s_win"]
    /\ UNCHANGED << events, bets, ncalls >>

\* mutant: the losing update sets the status and leaves settled_payout unset
MarkLostStatusOnly(b) == [b EXCEPT !.status = "lost"]

\* the document update of update_many for the losing bets
MarkLost(b) == [b EXCEPT !.status = "lost", !.settled_payout = 0]

\* the filter of update_many: {"event_id": e, "outcome": {"$ne": result}}
IsLosing(b, e, r) == b.event_id = e /\ b.outcome # r

\* db["bet"].update_many(... "lost", settled_payout 0.0 ...); return.
\* The multi-document update is taken as one step of the store.
SettleMarkLost(t) ==
    LET c == calls[t] IN
    /\ c.pc = "s_lose"
    /\ bets' = [i \in 1 .. Len(bets) |->
                  IF IsLosing(bets[i], c.event_id, c.outcome)
                  THEN MarkLost(bets[i]) ELSE bets[i]]
    /\ calls' = [calls EXCEPT ![t] = Finish(c, Ok)]
    /\ UNCHANGED << bettors, events, ncalls >>

\* the response (return value or HTTPException) goes out; the worker is free
Respond(t) ==
    /\ calls[t].pc = "done"
    /\ calls' = [calls EXCEPT ![t] = IdleCall]
    /\ UNCHANGED << store, ncalls >>

\* ------------------------------------------------------------------- Next
Next ==
    \/ SeedInsert
    \/ CreateBettor
    \/ \E t \in Threads, b \in BettorIds, e \in EventIds, o \in OutcomeNames, a \in Amounts :
          PlaceFindBettor(t, b, e, o, a)
    \/ \E t \in Threads : PlaceFindEvent(t)
    \/ \E t \in Threads : PlaceInsert(t)
    \/ \E t \in Threads : PlaceDebit(t)
    \/ \E t \in Threads, e \in EventIds, r \in OutcomeNames : SettleFindEvent(t, e, r)
    \/ \E t \in Threads : SettleUpdateEvent(t)
    \/ \E t \in Threads : SettleFindWinning(t)
    \/ \E t \in Threads : SettleMarkWon(t)
    \/ \E t \in Threads : SettleCredit(t)
    \/ \E t \in Threads : SettleMarkLost(t)
    \/ \E t \in Threads : Respond(t)

Spec == Init /\ [][Next]_vars

\* ----------------------------------------------------- one call at a time
\* no request is being handled and every response has gone out
Quiet == \A t \in Threads : calls[t].pc = "idle"

\* the same handlers when a request is accepted only after the previous
\* one has returned; worker 1 serves them all
SerialNext ==
    \/ SeedInsert
    \/ CreateBettor
    \/ \E b \in BettorIds, e \in EventIds, o \in OutcomeNames, a \in Amounts :
          Quiet /\ PlaceFindBettor(1, b, e, o, a)
    \/ \E t \in Threads : PlaceFindEvent(t)
    \/ \E t \in Threads : PlaceInsert(t)
    \/ \E t \in Threads : PlaceDebit(t)
    \/ \E e \in EventIds, r \in OutcomeNames :
          Quiet /\ SettleFindEvent(1, e, r)
    \/ \E t \in Threads : SettleUpdateEvent(t)
    \/ \E t \in Threads : SettleFindWinning(t)
    \/ \E t \in Threads : SettleMarkWon(t)
    \/ \E t \in Threads : SettleCredit(t)
    \/ \E t \in Threads : SettleMarkLost(t)
    \/ \E t \in Threads : Respond(t)

SpecSerial == Init /\ [][SerialNext]_vars

\* ------------------------------------------- odds altered after placement
\* the odds an edit of an event document gives its first outcome
AlteredOdds == 230

\* an edit of the stored event from outside the handlers: the odds of the
\* event's first outcome are changed
AlterOdds(e) ==
    /\ e \in 1 .. Len(events)
    /\ events[e].outcomes[1].odds # AlteredOdds
    /\ events' = [events EXCEPT ![e].outcomes[1].odds = AlteredOdds]
    /\ UNCHANGED << bettors, bets, calls, ncalls >>

OddsNext ==
    \/ SerialNext
    \/ \E e \in EventIds : AlterOdds(e)

SpecOdds == Init /\ [][OddsNext]_vars

\* ------------------------------------------------- the worked scenario
\* stakes of 50 and 100 on the outcomes of the first sample event
ScenarioAmounts == {5000, 10000}
ScenarioOutcomes == {"Team Red", "Draw"}

ScenarioNext ==
    \/ SeedInsert
    \/ CreateBettor
    \/ \E b \in BettorIds, o \in ScenarioOutcomes, a \in ScenarioAmounts :
          Quiet /\ PlaceFindBettor(1, b, 1, o, a)
    \/ \E t \in Threads : PlaceFindEvent(t)
    \/ \E t \in Threads : PlaceInsert(t)
    \/ \E t \in Threads : PlaceDebit(t)
    \/ \E r \in ScenarioOutcomes : Quiet /\ SettleFindEvent(1, 1, r)
    \/ \E t \in Threads : SettleUpdateEvent(t)
    \/ \E t \in Threads : SettleFindWinning(t)
    \/ \E t \in Threads : SettleMarkWon(t)
    \/ \E t \in Threads : SettleCredit(t)
    \/ \E t \in Threads : SettleMarkLost(t)
    \/ \E t \in Threads : Respond(t)

SpecScenario == Init /\ [][ScenarioNext]_vars

\* ---------------------------------------------------------- claim helpers
\* p is x (in 1/10000) rounded to the nearest cent
NearestCent(p, x) == 100 * p - x <= 50 /\ x - 100 * p <= 50

OutcomeNamesOf(ev) == {ev.outcomes[i].name : i \in 1 .. Len(ev.outcomes)}

\* the odds an event lists for the outcome named n
OddsOf(ev, n) ==
    LET i == CHOOSE j \in 1 .. Len(ev.outcomes) : ev.outcomes[j].name = n
    IN  ev.outcomes[i].odds

\* worker t takes a step from pc value p
StepFrom(t, p) == calls[t].pc = p /\ calls'[t] # calls[t]

\* worker t receives a request of kind k in this step
Starts(t, k) == calls[t].pc = "idle" /\ calls'[t].pc # "idle" /\ calls'[t].kind = k

\* worker t's request ends with an error response in this step
Fails(t) ==
    /\ calls[t].pc # "done"
    /\ calls'[t].pc = "done"
    /\ calls'[t].resp.status # 200

TypeOK ==
    /\ \A i \in 1 .. Len(bets) : bets[i].status \in {"pending", "won", "lost"}
    /\ \A i \in 1 .. Len(events) : events[i].status \in {"open", "settled"}
    /\ ncalls \in 0 .. MaxCalls
\* ------------------------------------------------------------------- C2
\* C2: settle_event selects every bet on the event whose outcome equals the
\* result; for each selected bet it sets status won and settled_payout =
\* amount x odds_at_bet rounded to the cent, then raises the owning bettor's
\* balance by exactly the settled_payout it wrote, and it leaves the loop
\* only when every selected bet has been paid.
C2_WinningBetsPaid ==
    [][\A t \in Threads :
        LET c == calls[t]
            h == Head(c.winning)
        IN
        /\ StepFrom(t, "s_find") =>
              LET w == calls'[t].winning IN
              /\ {w[k].id : k \in 1 .. Len(w)} =
                    {i \in 1 .. Len(bets) : /\ bets[i].event_id = c.event_id
                                            /\ bets[i].outcome = c.outcome}
              /\ \A j, k \in 1 .. Len(w) : w[j].id = w[k].id => j = k
              /\ \A k \in 1 .. Len(w) : w[k].doc = bets[w[k].id]
              /\ calls'[t].pc = IF w = << >> THEN "s_lose" ELSE "s_win"
              /\ store' = store
        /\ StepFrom(t, "s_win") =>
              /\ bets[h.id].event_id = c.event_id
              /\ bets[h.id].outcome = c.outcome
              /\ bets'[h.id] = [bets[h.id] EXCEPT
                                  !.status = "won",
                                  !.settled_payout = bets'[h.id].settled_payout]
              /\ NearestCent(bets'[h.id].settled_payout,
                             bets[h.id].amount * bets[h.id].odds_at_bet)
              /\ calls'[t].payout = bets'[h.id].settled_payout
              /\ \A i \in 1 .. Len(bets) : i # h.id => bets'[i] = bets[i]
              /\ Len(bets') = Len(bets)
              /\ bettors' = bettors
              /\ calls'[t].pc = "s_credit" /\ calls'[t].winning = c.winning
        /\ StepFrom(t, "s_credit") =>
              LET u == bets[h.id].user_id IN
              /\ bettors'[u].balance = bettors[u].balance + c.payout
              /\ NearestCent(c.payout, bets[h.id].amount * bets[h.id].odds_at_bet)
              /\ \A b \in 1 .. Len(bettors) : b # u => bettors'[b] = bettors[b]
              /\ Len(bettors') = Len(bettors)
              /\ bets' = bets
              /\ calls'[t].winning = Tail(c.winning)
              /\ calls'[t].pc = IF Tail(c.winning) = << >> THEN "s_lose" ELSE "s_win"
    ]_vars

\* a bet of 0.33 at odds 1.9 has won: settled_payout 0.63, balance 1000 - 0.33 + 0.63
C2_Witness ==
    \E t \in Threads, i \in 1 .. Len(bets) :
        /\ calls[t].kind = "settle" /\ calls[t].pc = "done" /\ calls[t].resp = Ok
        /\ bets[i].event_id = calls[t].event_id
        /\ bets[i].outcome = calls[t].outcome
        /\ bets[i].amount = 33 /\ bets[i].odds_at_bet = 190
        /\ bets[i].status = "won" /\ bets[i].settled_payout = 63
        /\ Len(bets) = 1
        /\ bettors[bets[i].user_id].balance = DefaultBalance - 33 + 63

\* ------------------------------------------------------------------- C3
\* C3: the losing-bet update of settle_event sets every bet on the event
\* whose outcome differs from the result to lost with settled_payout 0.0,
\* changes nothing else of any bet, and changes no balance; the only
\* balance a settlement changes is credited for a bet on the result.
C3_LosingBetsMarked ==
    [][\A t \in Threads :
        LET c == calls[t] IN
        /\ StepFrom(t, "s_lose") =>
              /\ Len(bets') = Len(bets)
              /\ \A i \in 1 .. Len(bets) :
                    IF bets[i].event_id = c.event_id /\ bets[i].outcome # c.outcome
                    THEN bets'[i] = [bets[i] EXCEPT !.status = "lost",
                                                    !.settled_payout = 0]
                    ELSE bets'[i] = bets[i]
              /\ bettors' = bettors
              /\ events' = events
              /\ calls'[t].pc = "done" /\ calls'[t].resp = Ok
        /\ calls[t].kind = "settle" /\ calls'[t] # calls[t] /\ bettors' # bettors =>
              /\ c.pc = "s_credit"
              /\ bets[Head(c.winning).id].outcome = c.outcome
              /\ bets[Head(c.winning).id].event_id = c.event_id
    ]_vars

\* a settlement with another result has completed: the bet is lost with
\* settled_payout 0.0 and its owner's balance is still 1000 - stake
C3_Witness ==
    \E t \in Threads, i \in 1 .. Len(bets) :
        /\ calls[t].kind = "settle" /\ calls[t].pc = "done" /\ calls[t].resp = Ok
        /\ bets[i].event_id = calls[t].event_id
        /\ bets[i].outcome # calls[t].outcome
        /\ bets[i].status = "lost" /\ bets[i].settled_payout = 0
        /\ Len(bets) = 1
        /\ bettors[bets[i].user_id].balance = DefaultBalance - bets[i].amount

\* ------------------------------------------------------------------- C4
\* C4: whenever no call is in progress, every Bet of a settled event has
\* status won or lost, never pending.
C4_NoPendingBetOfSettledEvent ==
    (\A t \in Threads : calls[t].pc \in {"idle", "done"}) =>
        \A i \in 1 .. Len(bets) :
            events[bets[i].event_id].status = "settled" =>
                bets[i].status \in {"won", "lost"}

\* ------------------------------------------------------------------- C5
\* C5: a place_bet or settle_event call that ends with an error response
\* does so in a step that writes nothing, and before any of its writes:
\* it fails on its first lookup or on the checks after the event lookup.
C5_FailureWritesNothing ==
    [][\A t \in Threads :
        Fails(t) =>
            /\ bets' = bets
            /\ bettors' = bettors
            /\ events' = events
            /\ calls[t].pc \in {"idle", "p_event"}
    ]_vars

\* after one accepted bet, a placement was rejected for insufficient balance
\* and a settlement for an invalid result: one bet, one debit, events open
C5_Witness ==
    /\ Len(bets) = 1
    /\ \E t \in Threads :
          /\ calls[t].kind = "place" /\ calls[t].pc = "done"
          /\ calls[t].resp = InsufficientBalance
          /\ calls[t].bettor_id = bets[1].user_id
    /\ \E t \in Threads :
          /\ calls[t].kind = "settle" /\ calls[t].pc = "done"
          /\ calls[t].resp = InvalidResult
    /\ bettors[bets[1].user_id].balance = DefaultBalance - bets[1].amount
    /\ \A e \in 1 .. Len(events) : events[e].status = "open"

\* ------------------------------------------------------------------- C6
\* C6: place_bet reports the first failing check in the order bettor
\* exists, event exists, event open, outcome known, amount > 0, amount <=
\* balance read; each check has its own error, and the call goes on to
\* insert the bet exactly when all six pass.
PlaceErrors ==
    {BettorNotFound, EventNotFound, EventNotOpen, InvalidOutcome,
     InvalidAmount, InsufficientBalance}

C6_FirstFailingCheck ==
    [][\A t \in Threads :
        LET c == calls[t]
            d == calls'[t]
        IN
        /\ Cardinality({r.detail : r \in PlaceErrors}) = 6
        /\ Starts(t, "place") =>
              IF d.bettor_id \notin 1 .. Len(bettors)
              THEN d.pc = "done" /\ d.resp = BettorNotFound
              ELSE d.pc = "p_event" /\ d.balance = bettors[d.bettor_id].balance
        /\ StepFrom(t, "p_event") =>
              IF c.event_id \notin 1 .. Len(events)
              THEN d.pc = "done" /\ d.resp = EventNotFound
              ELSE IF events[c.event_id].status # "open"
              THEN d.pc = "done" /\ d.resp = EventNotOpen
              ELSE IF c.outcome \notin OutcomeNamesOf(events[c.event_id])
              THEN d.pc = "done" /\ d.resp = InvalidOutcome
              ELSE IF c.amount <= 0
              THEN d.pc = "done" /\ d.resp = InvalidAmount
              ELSE IF c.amount > c.balance
              THEN d.pc = "done" /\ d.resp = InsufficientBalance
              ELSE d.pc = "p_insert"
    ]_vars

\* a request on a settled event, with an outcome the event does not have and
\* amount 0, was answered with the event-not-open error
C6_Witness ==
    \E t \in Threads :
        /\ calls[t].kind = "place" /\ calls[t].pc = "done"
        /\ calls[t].resp = EventNotOpen
        /\ calls[t].event_id \in 1 .. Len(events)
        /\ calls[t].outcome \notin OutcomeNamesOf(events[calls[t].event_id])
        /\ calls[t].amount = 0

\* ------------------------------------------------------------------- C7
\* C7: a place_bet that finds its event not open fails with the
\* event-not-open error whatever outcome and amount it carries, and no bet
\* is ever inserted for an event that is not open.
C7_NoBetOnClosedEvent ==
    [][\A t \in Threads :
        LET c == calls[t] IN
        /\ ( /\ StepFrom(t, "p_event")
             /\ c.event_id \in 1 .. Len(events)
             /\ events[c.event_id].status # "open" ) =>
                 calls'[t].pc = "done" /\ calls'[t].resp = EventNotOpen
        /\ StepFrom(t, "p_insert") => events[c.event_id].status = "open"
    ]_vars

\* ------------------------------------------------------------------- C8
\* C8: a place_bet whose amount exceeds the balance it read for the bettor
\* fails in a step that records no bet and changes no balance; one whose
\* amount equals that balance (other checks passing) is accepted.
C8_BalanceCheck ==
    [][\A t \in Threads :
        LET c == calls[t]
            d == calls'[t]
        IN
        /\ Starts(t, "place") /\ d.pc = "p_event" =>
              d.balance = bettors[d.bettor_id].balance
        /\ StepFrom(t, "p_event") /\ c.amount > c.balance =>
              /\ d.pc = "done" /\ d.resp.status # 200
              /\ bets' = bets /\ bettors' = bettors
        /\ ( /\ StepFrom(t, "p_event")
             /\ c.amount = c.balance /\ c.amount > 0
             /\ c.event_id \in 1 .. Len(events)
             /\ events[c.event_id].status = "open"
             /\ c.outcome \in OutcomeNamesOf(events[c.event_id]) ) =>
                 d.pc = "p_insert"
    ]_vars

\* a bet of the whole balance (1000) was accepted, and a later bet of 0.33 by
\* the same bettor was rejected without a debit
C8_Witness ==
    \E t \in Threads :
        /\ calls[t].kind = "place" /\ calls[t].pc = "done"
        /\ calls[t].resp = InsufficientBalance
        /\ calls[t].amount = 33
        /\ bettors[calls[t].bettor_id].balance = 0
        /\ Len(bets) = 1
        /\ bets[1].user_id = calls[t].bettor_id
        /\ bets[1].amount = DefaultBalance

\* ------------------------------------------------------------------- C9
\* C9: settle_event for an existing event with a result that names none of
\* its outcomes fails with the invalid-result error in a step that changes
\* no event, bet or balance.
C9_InvalidResultRejected ==
    [][\A t \in Threads :
        LET d == calls'[t] IN
        ( /\ Starts(t, "settle")
          /\ d.event_id \in 1 .. Len(events)
          /\ d.outcome \notin OutcomeNamesOf(events[d.event_id]) ) =>
              /\ d.pc = "done" /\ d.resp = InvalidResult
              /\ events' = events /\ bets' = bets /\ bettors' = bettors
    ]_vars

\* a settled event with a won bet was settled again with a result it does
\* not have: the request failed and status, result and the bet are as before
C9_Witness ==
    \E t \in Threads :
        /\ calls[t].kind = "settle" /\ calls[t].pc = "done"
        /\ calls[t].resp = InvalidResult
        /\ calls[t].event_id \in 1 .. Len(events)
        /\ events[calls[t].event_id].status = "settled"
        /\ events[calls[t].event_id].result \in
              OutcomeNamesOf(events[calls[t].event_id])
        /\ calls[t].outcome # events[calls[t].event_id].result
        /\ \E i \in 1 .. Len(bets) :
              bets[i].event_id = calls[t].event_id /\ bets[i].status = "won"

\* ------------------------------------------------------------------ C10
\* C10: the event update of a settle_event(event, r) call leaves that event
\* with status settled and result r (outcomes and other events untouched),
\* and the event is settled when the call returns successfully.
C10_EventSettledWithResult ==
    [][\A t \in Threads :
        LET c == calls[t] IN
        /\ StepFrom(t, "s_update") =>
              /\ events'[c.event_id] = [events[c.event_id] EXCEPT
                                          !.status = "settled",
                                          !.result = c.outcome]
              /\ \A e \in 1 .. Len(events) :
                    e # c.event_id => events'[e] = events[e]
              /\ Len(events') = Len(events)
        /\ ( /\ c.kind = "settle" /\ c.pc # "done"
             /\ calls'[t].pc = "done" /\ calls'[t].resp = Ok ) =>
                 /\ events'[c.event_id].status = "settled"
                 /\ events'[c.event_id].result \in
                       OutcomeNamesOf(events'[c.event_id])
    ]_vars

\* settle_event(1, "Draw") has returned successfully: event 1 is settled
\* with result Draw and event 2 is still open
C10_Witness ==
    \E t \in Threads :
        /\ calls[t].kind = "settle" /\ calls[t].pc = "done" /\ calls[t].resp = Ok
        /\ calls[t].event_id = 1 /\ calls[t].outcome = "Draw"
        /\ events[1].status = "settled" /\ events[1].result = "Draw"
        /\ Len(events) = 2 /\ events[2].status = "open"

\* ------------------------------------------------------------------ C11
\* C11: an event's status changes only from open to settled, and once an
\* event is settled no step changes its status or its result.
C11_SettledOnce ==
    [][\A e \in 1 .. Len(events) :
        /\ events'[e].status # events[e].status =>
              events[e].status = "open" /\ events'[e].status = "settled"
        /\ events[e].status = "settled" =>
              /\ events'[e].status = "settled"
              /\ events'[e].result = events[e].result
    ]_vars

\* ------------------------------------------------------------------ C12
\* C12: in every state, an event has a result exactly when its status is
\* settled, and the result names one of the event's outcomes.
C12_ResultIffSettled ==
    \A e \in 1 .. Len(events) :
        /\ events[e].result # NoResult <=> events[e].status = "settled"
        /\ events[e].result # NoResult =>
              events[e].result \in OutcomeNamesOf(events[e])

\* event 1 is settled with one of its outcomes while event 2 is open
\* without a result, and a settlement of event 2 with "Draw" was refused
C12_Witness ==
    /\ Len(events) = 2
    /\ events[1].status = "settled" /\ events[1].result = "Draw"
    /\ events[2].status = "open" /\ events[2].result = NoResult
    /\ \E t \in Threads :
          /\ calls[t].kind = "settle" /\ calls[t].pc = "done"
          /\ calls[t].event_id = 2 /\ calls[t].resp = InvalidResult

\* ------------------------------------------------------------------ C13
\* C13: a bet changes only while it is pending, going to won or lost
\* together with its settled_payout; a bet that is won or lost is never
\* changed by a later step.
C13_BetSettledOnce ==
    [][\A i \in 1 .. Len(bets) :
        /\ bets[i].status = "pending" /\ bets'[i] # bets[i] =>
              /\ bets'[i].status \in {"won", "lost"}
              /\ bets'[i].settled_payout # NoPayout
        /\ bets[i].status \in {"won", "lost"} => bets'[i] = bets[i]
    ]_vars

\* ------------------------------------------------------------------ C17
\* C17: a debit drives a balance below zero only for a call that passed the
\* amount <= balance check on a balance read earlier that is larger than
\* the balance now stored (another placement debited in between); such a
\* state is reachable.
C17_NegativeOnlyByStaleRead ==
    [][\A t \in Threads :
        LET c == calls[t] IN
        ( /\ StepFrom(t, "p_debit")
          /\ bettors'[c.bettor_id].balance < 0 ) =>
              /\ 0 < c.amount /\ c.amount <= c.balance
              /\ bettors[c.bettor_id].balance < c.balance
    ]_vars

\* two placements of the whole balance (1000 each) by one bettor have both
\* been accepted and debited: two bets, balance -1000
C17_Witness ==
    \E b \in 1 .. Len(bettors) :
        /\ bettors[b].balance = 0 - DefaultBalance
        /\ Len(bets) = 2
        /\ \A i \in 1 .. 2 : bets[i].user_id = b /\ bets[i].amount = DefaultBalance
        /\ \A t \in Threads :
              /\ calls[t].kind = "place" /\ calls[t].pc = "done"
              /\ calls[t].resp = Ok /\ calls[t].bettor_id = b

\* ------------------------------------------------------------------ C18
\* C18: settle_event goes on to its writes for any existing event and valid
\* result, whether the event is open or already settled; its selection of
\* winning bets takes bets that are already won, and each selected bet is
\* credited again.
C18_ResettlementPaysAgain ==
    [][\A t \in Threads :
        LET c == calls[t]
            d == calls'[t]
        IN
        /\ ( /\ Starts(t, "settle")
             /\ d.event_id \in 1 .. Len(events)
             /\ d.outcome \in OutcomeNamesOf(events[d.event_id]) ) =>
                 d.pc = "s_update"
        /\ StepFrom(t, "s_find") =>
              \A i \in 1 .. Len(bets) :
                 ( /\ bets[i].event_id = c.event_id
                   /\ bets[i].outcome = c.outcome
                   /\ bets[i].status = "won" ) =>
                       \E k \in 1 .. Len(d.winning) : d.winning[k].id = i
        /\ ( /\ StepFrom(t, "s_credit")
             /\ bets[Head(c.winning).id].status = "won" ) =>
                 bettors'[bets[Head(c.winning).id].user_id].balance =
                    bettors[bets[Head(c.winning).id].user_id].balance
                       + bets[Head(c.winning).id].settled_payout
    ]_vars

\* one bet of 0.33 at odds 1.9 was settled twice with its outcome: the bet
\* is won with settled_payout 0.63 and its owner was credited 0.63 twice
C18_Witness ==
    /\ Len(bets) = 1
    /\ bets[1].amount = 33 /\ bets[1].odds_at_bet = 190
    /\ bets[1].status = "won" /\ bets[1].settled_payout = 63
    /\ bettors[bets[1].user_id].balance = DefaultBalance - 33 + 2 * 63
    /\ events[bets[1].event_id].result = bets[1].outcome
    /\ \A t \in Threads : calls[t].pc \in {"idle", "done"}

\* ------------------------------------------------------------------ C19
\* C19: in every state, a bet that is won or lost belongs to an event whose
\* status is settled.
C19_SettledBetOnSettledEvent ==
    \A i \in 1 .. Len(bets) :
        bets[i].status \in {"won", "lost"} =>
            /\ bets[i].event_id \in 1 .. Len(events)
            /\ events[bets[i].event_id].status = "settled"

\* a settlement is between its event update and its bet updates: the event
\* is settled, one bet on it is already won and another still pending
C19_Witness ==
    \E t \in Threads, i, j \in 1 .. Len(bets) :
        /\ calls[t].kind = "settle" /\ calls[t].pc \in {"s_win", "s_credit", "s_lose"}
        /\ bets[i].event_id = calls[t].event_id
        /\ bets[j].event_id = calls[t].event_id
        /\ bets[i].status = "won" /\ bets[j].status = "pending"
        /\ events[calls[t].event_id].status = "settled"

\* ------------------------------------------------------------------ C20
\* C20: whenever no call is in progress, each bettor's balance equals the
\* starting balance minus the stakes of all their bets plus the
\* settled_payout of their bets that are won.
RECURSIVE Staked(_, _)
Staked(b, i) ==
    IF i = 0 THEN 0
    ELSE Staked(b, i - 1) + (IF bets[i].user_id = b THEN bets[i].amount ELSE 0)

RECURSIVE Won(_, _)
Won(b, i) ==
    IF i = 0 THEN 0
    ELSE Won(b, i - 1) +
         (IF bets[i].user_id = b /\ bets[i].status = "won"
          THEN bets[i].settled_payout ELSE 0)

C20_LedgerConsistent ==
    (\A t \in Threads : calls[t].pc \in {"idle", "done"}) =>
        \A b \in 1 .. Len(bettors) :
            bettors[b].balance =
                DefaultBalance - Staked(b, Len(bets)) + Won(b, Len(bets))

\* ------------------------------------------------------------------ C14
\* C14: when calls execute one at a time, every bettor's balance is >= 0
\* in every reachable state.
C14_BalanceNeverNegative ==
    \A b \in 1 .. Len(bettors) : bettors[b].balance >= 0

\* a bettor staked the whole balance, is at 0, and a further placement of
\* 1000 by the same bettor was refused for insufficient balance
C14_Witness ==
    \E t \in Threads :
        /\ calls[t].kind = "place" /\ calls[t].pc = "done"
        /\ calls[t].resp = InsufficientBalance
        /\ calls[t].amount = DefaultBalance
        /\ bettors[calls[t].bettor_id].balance = 0
        /\ \E i \in 1 .. Len(bets) :
              /\ bets[i].user_id = calls[t].bettor_id
              /\ bets[i].amount = DefaultBalance

\* ------------------------------------------------------------------ C15
\* C15: no step changes the odds_at_bet, amount or outcome of a recorded
\* bet, also when the event's odds are altered after placement; the payout
\* written and credited at settlement is amount x the bet's own
\* odds_at_bet rounded to the cent.
C15_OddsLockedAtPlacement ==
    [][/\ \A i \in 1 .. Len(bets) :
            /\ bets'[i].odds_at_bet = bets[i].odds_at_bet
            /\ bets'[i].amount = bets[i].amount
            /\ bets'[i].outcome = bets[i].outcome
       /\ \A t \in Threads :
            LET c == calls[t]
                h == Head(c.winning)
            IN
            /\ StepFrom(t, "p_insert") =>
                  bets'[Len(bets')].odds_at_bet = c.odds
            /\ StepFrom(t, "s_win") =>
                  NearestCent(bets'[h.id].settled_payout,
                              bets[h.id].amount * bets[h.id].odds_at_bet)
            /\ StepFrom(t, "s_credit") =>
                  /\ bettors'[bets[h.id].user_id].balance =
                        bettors[bets[h.id].user_id].balance + c.payout
                  /\ NearestCent(c.payout,
                                 bets[h.id].amount * bets[h.id].odds_at_bet)
    ]_vars

\* a bet of 0.33 placed at odds 1.9 has won after the event's odds for its
\* outcome were altered to 2.3: it paid 0.63, not 0.76
C15_Witness ==
    \E i \in 1 .. Len(bets) :
        /\ bets[i].amount = 33 /\ bets[i].odds_at_bet = 190
        /\ OddsOf(events[bets[i].event_id], bets[i].outcome) = AlteredOdds
        /\ bets[i].status = "won" /\ bets[i].settled_payout = 63
        /\ Len(bets) = 1
        /\ bettors[bets[i].user_id].balance = DefaultBalance - 33 + 63
        /\ Quiet

\* ------------------------------------------------------------------ C16
\* C16: with the first sample event (Team Red 1.9, Draw 3.2, Team Blue 2.1)
\* and two bettors at 1000: after A stakes 100 on Team Red the bet has
\* potential_payout 190.00 and A is at 900; after B then stakes 50 on Draw
\* B is at 950; after the event is then settled with Team Red, A's bet is
\* won with settled_payout 190.00 and A is at 1090, B's bet is lost with
\* settled_payout 0.0 and B is still at 950.
BetOfA(b) ==
    /\ b.user_id = 1 /\ b.event_id = 1
    /\ b.outcome = "Team Red" /\ b.amount = 10000

BetOfB(b) ==
    /\ b.user_id = 2 /\ b.event_id = 1
    /\ b.outcome = "Draw" /\ b.amount = 5000

NoCallInProgress == \A t \in Threads : calls[t].pc \in {"idle", "done"}

C16_Scenario ==
    /\ ( /\ NoCallInProgress /\ Len(bets) = 1 /\ BetOfA(bets[1])
         /\ events[1].status = "open" ) =>
            /\ bets[1].status = "pending"
            /\ bets[1].potential_payout = 19000
            /\ bettors[1].balance = 90000
    /\ ( /\ NoCallInProgress /\ Len(bets) = 2
         /\ BetOfA(bets[1]) /\ BetOfB(bets[2])
         /\ events[1].status = "open" ) =>
            /\ bets[2].status = "pending"
            /\ bettors[1].balance = 90000
            /\ bettors[2].balance = 95000
    /\ ( /\ NoCallInProgress /\ ncalls = 3 /\ Len(bets) = 2
         /\ BetOfA(bets[1]) /\ BetOfB(bets[2])
         /\ events[1].status = "settled" /\ events[1].result = "Team Red" ) =>
            /\ bets[1].status = "won" /\ bets[1].settled_payout = 19000
            /\ bettors[1].balance = 109000
            /\ bets[2].status = "lost" /\ bets[2].settled_payout = 0
            /\ bettors[2].balance = 95000

\* the scenario has run to its end: A's bet, B's bet, then the settlement
C16_Witness ==
    /\ NoCallInProgress /\ ncalls = 3 /\ Len(bets) = 2
    /\ BetOfA(bets[1]) /\ BetOfB(bets[2])
    /\ events[1].outcomes = << Outcome("Team Red", 190), Outcome("Draw", 320),
                               Outcome("Team Blue", 210) >>
    /\ events[1].status = "settled" /\ events[1].result = "Team Red"
    /\ bets[1].status = "won" /\ bets[2].status = "lost"
    /\ bettors[1].balance = 109000 /\ bettors[2].balance = 95000

====
